---- MODULE Spec2Model ----
(***************************************************************************)
(* Model of macros/src/check.rs of cortex-m-rtfm: the verifier that turns  *)
(* the parsed application description (syntax::check::App) into a checked  *)
(* App, or into the first error it meets.                                  *)
(*                                                                         *)
(* Option<T> is modelled as a sequence: <<>> is None, <<v>> is Some(v).    *)
(* HashMap / HashSet iteration order is unspecified, so "the first element *)
(* of the iteration that fails a check" is any element that fails it.      *)
(***************************************************************************)
EXTENDS Integers, Sequences, FiniteSets, TLC

VARIABLES input, pc, tasks, result, stdout, calls, prev, targ, tret

vars == <<input, pc, tasks, result, stdout, calls, prev, targ, tret>>

(***************************************************************************)
(* Bounds of the model                                                     *)
(***************************************************************************)
(* the task mapping of an input holds at most MaxTasks tasks *)
MaxTasks == 1
(* declared priorities are 2..MaxPriority: a declared 1 is the default *)
MaxPriority == 2

(* the names resources are declared and claimed under *)
ResNames == {"A", "B"}

(* the names tasks are declared under: a reserved one and another *)
TaskNames == {"PENDSV", "EXTI0"}

(* the names task() is applied to on its own *)
CallNames == {"PENDSV", "SVCALL", "SYS_TICK", "EXTI0", "pendsv"}

None == <<>>
Some(v) == <<v>>
is_some(o) == o # <<>>
is_none(o) == o = <<>>
unwrap_or(o, d) == IF o = <<>> THEN d ELSE o[1]

(***************************************************************************)
(* Exception::from and Exception::nr                                       *)
(***************************************************************************)
(* Exception::from without its last arm *)
Exception_from_NoSysTick(s) ==
    CASE s = "PENDSV" -> Some("PENDSV")
      [] s = "SVCALL" -> Some("SVCALL")
      [] OTHER -> None

Exception_from(s) ==
    CASE s = "PENDSV" -> Some("PENDSV")
      [] s = "SVCALL" -> Some("SVCALL")
      [] s = "SYS_TICK" -> Some("SYS_TICK")
      [] OTHER -> None

Exception_nr(e) ==
    CASE e = "PENDSV" -> 14
      [] e = "SVCALL" -> 11
      [] e = "SYS_TICK" -> 15

(***************************************************************************)
(* Result<T>: Ok(v) or Err(e).  An error is the message (its format string *)
(* and the values formatted into it) and the chain of contexts added by    *)
(* chain_err.                                                              *)
(***************************************************************************)
Ok(v) == [tag |-> "ok", val |-> v]
Err(m, a) == [tag |-> "err", msg |-> m, args |-> a, chain |-> <<>>]
chain_err(r, c) == IF r.tag = "err" THEN [r EXCEPT !.chain = Append(@, c)] ELSE r
NoResult == [tag |-> "none"]

(***************************************************************************)
(* fn task(name, task) -> Result<Task>                                     *)
(***************************************************************************)
KindException(e) == [variant |-> "Exception", exception |-> e]
KindInterrupt(en) == [variant |-> "Interrupt", enabled |-> en]

DefaultPriority == 1

(* the Task literal with the priority field always the default *)
TaskRecord_DefaultPriorityOnly(kind, raw) ==
    IF is_none(raw.path)
    THEN Err("path field is missing", <<>>)
    ELSE Ok([kind |-> kind,
             path |-> raw.path[1],
             priority |-> DefaultPriority,
             resources |-> raw.resources])

TaskRecord(kind, raw) ==
    IF is_none(raw.path)
    THEN Err("path field is missing", <<>>)
    ELSE Ok([kind |-> kind,
             path |-> raw.path[1],
             priority |-> unwrap_or(raw.priority, DefaultPriority),
             resources |-> raw.resources])

(* task() with an omitted enabled flag read as false *)
task_DefaultDisabled(name, raw) ==
    LET e == Exception_from(name) IN
    IF is_some(e)
    THEN IF ~ is_none(raw.enabled)
         THEN Err("enabled field is not valid for exceptions", <<>>)
         ELSE TaskRecord(KindException(e[1]), raw)
    ELSE IF raw.enabled = Some(TRUE)
         THEN Err("enabled: true is the default value", <<>>)
         ELSE TaskRecord(KindInterrupt(unwrap_or(raw.enabled, FALSE)), raw)

task(name, raw) ==
    LET e == Exception_from(name) IN
    IF is_some(e)
    THEN IF ~ is_none(raw.enabled)
         THEN Err("enabled field is not valid for exceptions", <<>>)
         ELSE TaskRecord(KindException(e[1]), raw)
    ELSE IF raw.enabled = Some(TRUE)
         THEN Err("enabled: true is the default value", <<>>)
         ELSE TaskRecord(KindInterrupt(unwrap_or(raw.enabled, TRUE)), raw)

(***************************************************************************)
(* fn resources(app) -> Result<()>, one operator per loop                  *)
(***************************************************************************)
(* the first loop's body without the check against idle *)
InitResource_NoIdleCheck(app, name) ==
    IF name \notin DOMAIN app.resources
    THEN Err("resource _, allocated to init, must be a data resource", <<name>>)
    ELSE IF ~ app.resources[name]
    THEN Err("resource _, allocated to init, must have an initial value", <<name>>)
    ELSE IF ~ (\A t \in DOMAIN app.tasks : name \notin app.tasks[t].resources)
    THEN Err("resources assigned to init cannot be shared with tasks", <<>>)
    ELSE Ok(<<>>)

(* body of the first loop for one name claimed by init *)
InitResource(app, name) ==
    IF name \notin DOMAIN app.resources
    THEN Err("resource _, allocated to init, must be a data resource", <<name>>)
    ELSE IF ~ app.resources[name]
    THEN Err("resource _, allocated to init, must have an initial value", <<name>>)
    ELSE IF name \in app.idle
    THEN Err("resources assigned to init cannot be shared with idle", <<>>)
    ELSE IF ~ (\A t \in DOMAIN app.tasks : name \notin app.tasks[t].resources)
    THEN Err("resources assigned to init cannot be shared with tasks", <<>>)
    ELSE Ok(<<>>)

(* the second loop's body without the check against idle *)
UsedResource_IgnoresIdle(app, resource) ==
    IF resource \in app.init THEN Ok(<<>>)
    ELSE IF \E t \in DOMAIN app.tasks : resource \in app.tasks[t].resources THEN Ok(<<>>)
    ELSE Err("resource _ is unused", <<resource>>)

(* body of the second loop for one declared resource *)
UsedResource(app, resource) ==
    IF resource \in app.init THEN Ok(<<>>)
    ELSE IF resource \in app.idle THEN Ok(<<>>)
    ELSE IF \E t \in DOMAIN app.tasks : resource \in app.tasks[t].resources THEN Ok(<<>>)
    ELSE Err("resource _ is unused", <<resource>>)

(* the third loop's body with the two format arguments exchanged *)
DeclaredResource_ArgsSwapped(app, name, resource) ==
    IF resource \in DOMAIN app.resources
    THEN Ok(<<>>)
    ELSE Err("task _ contains an undeclared resource with name _", <<resource, name>>)

(* body of the third loop for one resource of one task *)
DeclaredResource(app, name, resource) ==
    IF resource \in DOMAIN app.resources
    THEN Ok(<<>>)
    ELSE Err("task _ contains an undeclared resource with name _", <<name, resource>>)

(* what a loop that returns at the first failing iteration can return, the  *)
(* iteration order being unspecified: any of the failures, else Ok          *)
FirstFailure(outcomes) ==
    LET errs == {o \in outcomes : o.tag = "err"} IN
    IF errs = {} THEN {Ok(<<>>)} ELSE errs

LoopA(app) == FirstFailure({InitResource(app, n) : n \in app.init})
LoopB(app) == FirstFailure({UsedResource(app, r) : r \in DOMAIN app.resources})
LoopC(app) ==
    FirstFailure(UNION {{DeclaredResource(app, name, resource) :
                            resource \in app.tasks[name].resources} :
                        name \in DOMAIN app.tasks})

(***************************************************************************)
(* Inputs                                                                  *)
(***************************************************************************)
Paths == {"handler"}
Priorities == {None} \cup {Some(p) : p \in 2..MaxPriority}
RawTasks ==
    [enabled : {None, Some(TRUE), Some(FALSE)},
     priority : Priorities,
     path : {None} \cup {Some(h) : h \in Paths},
     resources : SUBSET ResNames]

PartialFns(D, R) == UNION {[S -> R] : S \in SUBSET D}
BoundedFns(D, R, n) == UNION {[S -> R] : S \in {T \in SUBSET D : Cardinality(T) <= n}}

Inputs ==
    [device : {"device"},
     init : SUBSET ResNames,
     idle : SUBSET ResNames,
     resources : PartialFns(ResNames, BOOLEAN),
     tasks : BoundedFns(TaskNames, RawTasks, MaxTasks)]

NoArg == [name |-> "", raw |-> [enabled |-> None, priority |-> None,
                                 path |-> None, resources |-> {}]]

(* the App under construction, as resources() sees it *)
App == [device |-> input.device, idle |-> input.idle, init |-> input.init,
        resources |-> input.resources, tasks |-> tasks]

EmptyMap == [x \in {} |-> x]

(***************************************************************************)
(* fn app(app) -> Result<App>                                              *)
(***************************************************************************)
Init ==
    /\ input \in Inputs
    /\ pc = "start"
    /\ tasks = EmptyMap
    /\ result = NoResult
    /\ stdout = <<>>
    /\ calls = 0
    /\ prev = NoResult
    /\ targ = NoArg
    /\ tret = NoResult

Finish(r) ==
    /\ pc' = "done"
    /\ result' = r

(* the first println! *)
AppStart ==
    /\ pc = "start"
    /\ stdout' = Append(stdout, "-- checking tasks --")
    /\ pc' = "tasks"
    /\ UNCHANGED <<input, tasks, result, calls, prev, targ, tret>>

BuildAll ==
    {chain_err(task(k, input.tasks[k]), <<"checking task _", k>>) : k \in DOMAIN input.tasks}

(* app.tasks.into_iter().map(..).collect::<Result<_>>()? : stops at the    *)
(* first task that fails, else the map of the built tasks; then the second *)
(* println! and the call of resources()                                    *)
AppTasks ==
    /\ pc = "tasks"
    /\ \E r \in FirstFailure(BuildAll) :
         IF r.tag = "err"
         THEN /\ Finish(r)
              /\ UNCHANGED <<tasks, stdout, calls>>
         ELSE /\ tasks' = [k \in DOMAIN input.tasks |-> task(k, input.tasks[k]).val]
              /\ stdout' = Append(stdout, "-- checking resources --")
              /\ calls' = calls + 1
              /\ pc' = "loopA"
              /\ UNCHANGED result
    /\ UNCHANGED <<input, prev, targ, tret>>

ResourcesLoop(here, loop, next) ==
    /\ pc = here
    /\ \E r \in loop :
         IF r.tag = "err"
         THEN Finish(chain_err(r, <<"checking resources">>))
         ELSE IF next = "done"
              THEN Finish(Ok(App))
              ELSE pc' = next /\ UNCHANGED result
    /\ UNCHANGED <<input, tasks, stdout, calls, prev, targ, tret>>

(* resources() with the second loop left out *)
ResourcesA_SkipsLoopB == ResourcesLoop("loopA", LoopA(App), "loopC")

ResourcesA == ResourcesLoop("loopA", LoopA(App), "loopB")
ResourcesB == ResourcesLoop("loopB", LoopB(App), "loopC")
ResourcesC == ResourcesLoop("loopC", LoopC(App), "done")

Next == AppStart \/ AppTasks \/ ResourcesA \/ ResourcesB \/ ResourcesC

Spec == Init /\ [][Next]_vars

(***************************************************************************)
(* A second run of app() on the same input: the first run's result is kept *)
(* in prev and everything else starts again.                               *)
(***************************************************************************)
Rerun ==
    /\ pc = "done"
    /\ prev = NoResult
    /\ prev' = result
    /\ pc' = "start"
    /\ tasks' = EmptyMap
    /\ result' = NoResult
    /\ stdout' = <<>>
    /\ calls' = 0
    /\ UNCHANGED <<input, targ, tret>>

NextRerun == AppStart \/ AppTasks \/ ResourcesA \/ ResourcesB \/ ResourcesC \/ Rerun

SpecRerun == Init /\ [][NextRerun]_vars

(***************************************************************************)
(* task() on its own: one call on one name and one raw declaration         *)
(***************************************************************************)
EmptyInput == [device |-> "device", init |-> {}, idle |-> {},
               resources |-> EmptyMap, tasks |-> EmptyMap]

InitTask ==
    /\ targ \in [name : CallNames, raw : RawTasks]
    /\ tret = NoResult
    /\ pc = "call"
    /\ input = EmptyInput
    /\ tasks = EmptyMap
    /\ result = NoResult
    /\ stdout = <<>>
    /\ calls = 0
    /\ prev = NoResult

TaskCall ==
    /\ pc = "call"
    /\ tret' = task(targ.name, targ.raw)
    /\ pc' = "returned"
    /\ UNCHANGED <<input, tasks, result, stdout, calls, prev, targ>>

NextTask == TaskCall

SpecTask == InitTask /\ [][NextTask]_vars

(***************************************************************************)
(* The vocabulary of the properties: the invariants I1-I7 of the data      *)
(* model read off the input, the error kinds and the stages.               *)
(***************************************************************************)
ReservedNames == {"PENDSV", "SVCALL", "SYS_TICK"}

I5(name, raw) == name \in ReservedNames => raw.enabled = None
I6(name, raw) == name \notin ReservedNames => raw.enabled # Some(TRUE)
I7(name, raw) == raw.path # None
TaskValid(name, raw) == I5(name, raw) /\ I6(name, raw) /\ I7(name, raw)
AllTasksValid == \A k \in DOMAIN input.tasks : TaskValid(k, input.tasks[k])

TaskClaims == UNION {input.tasks[k].resources : k \in DOMAIN input.tasks}
Declared == DOMAIN input.resources

I1 == \A r \in input.init : r \in Declared /\ input.resources[r]
I2 == \A r \in input.init : r \notin input.idle /\ r \notin TaskClaims
I3 == \A r \in Declared : r \in input.init \cup input.idle \cup TaskClaims
I4 == TaskClaims \subseteq Declared

InputValid == AllTasksValid /\ I1 /\ I2 /\ I3 /\ I4

Dangling == {p \in (DOMAIN input.tasks) \X ResNames :
               p[2] \in input.tasks[p[1]].resources /\ p[2] \notin Declared}
InitShared == {r \in input.init : r \in input.idle \/ r \in TaskClaims}

ErrKind(r) ==
    CASE r.msg = "path field is missing" -> "MissingField"
      [] r.msg = "enabled field is not valid for exceptions" -> "InvalidField"
      [] r.msg = "enabled: true is the default value" -> "RedundantDefault"
      [] r.msg = "resource _, allocated to init, must be a data resource" -> "UnknownResource"
      [] r.msg = "resource _, allocated to init, must have an initial value" -> "ResourceNotInitialized"
      [] r.msg = "resources assigned to init cannot be shared with idle" -> "ResourceConflict"
      [] r.msg = "resources assigned to init cannot be shared with tasks" -> "ResourceConflict"
      [] r.msg = "resource _ is unused" -> "UnusedResource"
      [] r.msg = "task _ contains an undeclared resource with name _" -> "UnknownResource"

Returned == pc = "done"
Failed == pc = "done" /\ result.tag = "err"
Succeeded == pc = "done" /\ result.tag = "ok"

(***************************************************************************)
(* C1: app() returns success exactly when every task satisfies I5-I7 and   *)
(* the assembled model satisfies I1-I4; otherwise it returns one error and *)
(* no Application.                                                         *)
(***************************************************************************)
C1_SuccessIffValid ==
    Returned =>
        /\ result.tag \in {"ok", "err"}
        /\ result.tag = "ok" <=> InputValid
        /\ result.tag = "err" => DOMAIN result = {"tag", "msg", "args", "chain"}
        /\ result.tag = "ok" => DOMAIN result = {"tag", "val"}

C1_Witness ==
    /\ Succeeded
    /\ input.init # {}
    /\ input.idle # {}
    /\ \E k \in DOMAIN input.tasks : input.tasks[k].resources # {}

NamesDangling(r) ==
    /\ r.msg = "task _ contains an undeclared resource with name _"
    /\ Len(r.args) = 2
    /\ <<r.args[1], r.args[2]>> \in Dangling

C3_AlwaysUnknownResource ==
    (Returned /\ Dangling # {}) =>
        /\ result.tag = "err"
        /\ ErrKind(result) = "UnknownResource"
        /\ NamesDangling(result)

(***************************************************************************)
(* C3 amended: every such input is rejected, and the error is an           *)
(* UnknownResource naming a task and an undeclared name it claims whenever *)
(* every task builds and the two earlier passes find no violation (I1, I2  *)
(* and I3 hold).                                                           *)
(***************************************************************************)
C3_UnknownResourceAfterEarlierPasses ==
    (Returned /\ Dangling # {}) =>
        /\ result.tag = "err"
        /\ (AllTasksValid /\ I1 /\ I2 /\ I3) =>
               ErrKind(result) = "UnknownResource" /\ NamesDangling(result)

C3_Witness ==
    /\ Failed
    /\ Dangling # {}
    /\ AllTasksValid /\ I1 /\ I2 /\ I3
    /\ Declared # {}
    /\ NamesDangling(result)

(***************************************************************************)
(* C4: every error names the offending entity: a task error carries the    *)
(* task's name, and every error of the resource validator carries the name *)
(* of the resource that violates the rule.                                 *)
(***************************************************************************)
IsTaskError(r) == ErrKind(r) \in {"MissingField", "InvalidField", "RedundantDefault"}

NamesTask(r) ==
    \E i \in DOMAIN r.chain :
        /\ Len(r.chain[i]) = 2
        /\ r.chain[i][2] \in DOMAIN input.tasks
        /\ ~ TaskValid(r.chain[i][2], input.tasks[r.chain[i][2]])

Offenders(r) ==
    CASE ErrKind(r) = "ResourceConflict" -> InitShared
      [] ErrKind(r) = "ResourceNotInitialized" ->
             {n \in input.init \cap Declared : ~ input.resources[n]}
      [] ErrKind(r) = "UnusedResource" ->
             {n \in Declared : n \notin input.init \cup input.idle \cup TaskClaims}
      [] ErrKind(r) = "UnknownResource" ->
             (input.init \cup TaskClaims) \ Declared
      [] OTHER -> {}

NamesResource(r) == \E i \in DOMAIN r.args : r.args[i] \in Offenders(r)

C4_ErrorNamesEntity ==
    Failed => IF IsTaskError(result) THEN NamesTask(result) ELSE NamesResource(result)

(***************************************************************************)
(* C5: whenever app() succeeds, every resource name claimed by Init, by    *)
(* Idle and by every task is a key of the Application's resource mapping.  *)
(***************************************************************************)
C5_NoDanglingReference ==
    Succeeded =>
        /\ result.val.init \subseteq DOMAIN result.val.resources
        /\ result.val.idle \subseteq DOMAIN result.val.resources
        /\ \A k \in DOMAIN result.val.tasks :
               result.val.tasks[k].resources \subseteq DOMAIN result.val.resources

(***************************************************************************)
(* C6: building a task named after a reserved exception with an enabled    *)
(* flag present fails with InvalidField, whatever the flag's value and     *)
(* whether or not the handler is present.                                  *)
(***************************************************************************)
CallReturned == pc = "returned"

C6_ExceptionPurity ==
    (CallReturned /\ targ.name \in ReservedNames /\ targ.raw.enabled # None) =>
        tret.tag = "err" /\ ErrKind(tret) = "InvalidField"

C6_Witness ==
    /\ CallReturned
    /\ targ.name = "SYS_TICK"
    /\ targ.raw.enabled = Some(FALSE)
    /\ targ.raw.path = None
    /\ tret.tag = "err"
    /\ ErrKind(tret) = "InvalidField"

(***************************************************************************)
(* C7: building a task whose name is not reserved fails with               *)
(* RedundantDefault when enabled is explicitly true; with the handler      *)
(* present and enabled false or omitted it succeeds as an Interrupt,       *)
(* enabled = false for an explicit false and enabled = true when omitted.  *)
(***************************************************************************)
C7_DefaultRedundancy ==
    (CallReturned /\ targ.name \notin ReservedNames) =>
        /\ targ.raw.enabled = Some(TRUE) =>
               tret.tag = "err" /\ ErrKind(tret) = "RedundantDefault"
        /\ (targ.raw.enabled # Some(TRUE) /\ targ.raw.path # None) =>
               /\ tret.tag = "ok"
               /\ tret.val.kind.variant = "Interrupt"
               /\ tret.val.kind.enabled = (targ.raw.enabled = None)

C7_Witness ==
    /\ CallReturned
    /\ targ.name = "pendsv"
    /\ targ.raw.enabled = None
    /\ tret.tag = "ok"
    /\ tret.val.kind = KindInterrupt(TRUE)

(***************************************************************************)
(* C8: the stages run in the order task building, first loop, second loop, *)
(* third loop, and the run stops at the first stage with a violation: the  *)
(* error belongs to the earliest violated stage, resources() is called     *)
(* once and only after every task was built, a task error carries the      *)
(* context of its task and a resource error the context of resources(),    *)
(* and the second marker is printed after the first and only when no task  *)
(* failed.                                                                 *)
(***************************************************************************)
EarliestViolatedStage ==
    IF ~ AllTasksValid THEN "tasks"
    ELSE IF ~ (I1 /\ I2) THEN "A"
    ELSE IF ~ I3 THEN "B"
    ELSE IF ~ I4 THEN "C"
    ELSE "none"

StageOf(r) ==
    CASE IsTaskError(r) -> "tasks"
      [] r.msg = "resource _ is unused" -> "B"
      [] r.msg = "task _ contains an undeclared resource with name _" -> "C"
      [] OTHER -> "A"

InResources == pc \in {"loopA", "loopB", "loopC"} \/ (Returned /\ ~ (Failed /\ IsTaskError(result)))

C8_StageOrdering ==
    /\ Failed => StageOf(result) = EarliestViolatedStage
    /\ Failed => IF IsTaskError(result)
                 THEN /\ Len(result.chain) = 1
                      /\ result.chain[1][1] = "checking task _"
                      /\ NamesTask(result)
                 ELSE result.chain = << <<"checking resources">> >>
    /\ calls = (IF InResources THEN 1 ELSE 0)
    /\ calls = 1 => /\ AllTasksValid
                    /\ DOMAIN tasks = DOMAIN input.tasks
    /\ stdout = (IF pc = "start" THEN <<>>
                 ELSE IF InResources
                      THEN <<"-- checking tasks --", "-- checking resources --">>
                      ELSE <<"-- checking tasks --">>)
    /\ Len(stdout) = 2 => AllTasksValid

C8_Witness ==
    /\ Failed
    /\ AllTasksValid /\ I1 /\ I2
    /\ ~ I3 /\ ~ I4
    /\ StageOf(result) = "B"
    /\ calls = 1

(***************************************************************************)
(* C9: two runs of app() on the same input return the same result,         *)
(* whatever the order in which the mappings and the claim sets are         *)
(* iterated, also for an input with more than one violation.               *)
(***************************************************************************)
C9_SameResult ==
    (Returned /\ prev # NoResult) => result = prev

(***************************************************************************)
(* C10: on success the Application is the input with its tasks normalised: *)
(* device, Init, Idle and the resource mapping are the input's, the task   *)
(* names are the input's, and every task keeps its claim set and its       *)
(* handler and has the declared priority, or 1 when none was declared.     *)
(***************************************************************************)
C10_InputCarriedThrough ==
    Succeeded =>
        /\ result.val.device = input.device
        /\ result.val.init = input.init
        /\ result.val.idle = input.idle
        /\ result.val.resources = input.resources
        /\ DOMAIN result.val.tasks = DOMAIN input.tasks
        /\ \A k \in DOMAIN input.tasks :
               /\ result.val.tasks[k].resources = input.tasks[k].resources
               /\ input.tasks[k].path = Some(result.val.tasks[k].path)
               /\ result.val.tasks[k].priority =
                      (IF input.tasks[k].priority = None
                       THEN 1 ELSE input.tasks[k].priority[1])

C10_Witness ==
    /\ Succeeded
    /\ input.init # {}
    /\ \E k \in DOMAIN input.tasks :
           /\ input.tasks[k].priority = None
           /\ input.tasks[k].resources # {}
           /\ result.val.tasks[k].priority = 1

====
